---- MODULE Spec2Model ----
(***************************************************************************)
(* Model of polar.py: the heart-rate frame decoder hr_data_conv and the    *)
(* concurrent recorder record / record_from_device driven by main.         *)
(*                                                                         *)
(* The recorder runs on one asyncio event loop: the code between two       *)
(* awaits of a coroutine is one atomic step, so every action below is the  *)
(* code from one suspension point of a session to its next one.            *)
(***************************************************************************)
EXTENDS Integers, Sequences, FiniteSets, TLC

(* ---------------------------------------------------------------- bounds *)

\* notifications delivered in one run, over all sessions
MaxNotifs == 2
\* longest payload handed to the decoder on its own
MaxLen == 5

(* ------------------------------------------------------- program constants *)

\* the keys of the devices table, in insertion order
devices ==
    << "Polar OH1 85E77F28", "Polar OH1 6EFADA2E", "Polar OH1 84BF0B2D",
       "Polar OH1 6E85CB22", "Polar OH1 D025F429", "Polar OH1 85EA7F2B",
       "Polar OH1 84BF1A2F" >>

\* parser_record's default of --phase
phase == "0"

(* ------------------------------------------------------------- inputs *)

\* the --subjects lists of the runs with notifications
SubjectLists == { << "s1", "s2" >>, << "s1", "s1" >> }

\* the --subjects lists of the runs that contend for the lock
GateSubjectLists == { << "s1", "s2", "s3" >>, << "s1" >> }

\* the notification payloads the connections deliver
Payloads == { << 0, 70 >>, << 0, 71 >>, << 0 >> }

\* flags bytes and data bytes of the payloads decoded on their own
FlagVals == { 0, 1, 8, 9, 16, 17, 24, 25 }
ByteVals == { 0, 1, 2, 4, 70, 255 }

(* ------------------------------------------------------------ variables *)

VARIABLES
    subjects,       \* args.subjects of this run
    pc,             \* where each record_from_device task is suspended
    locked,         \* lock._locked
    waiters,        \* lock._waiters: the sessions queued in lock.acquire()
    woken,          \* waiters whose future has its result set
    inGate,         \* sessions inside the body of `async with lock`
    cancelReq,      \* tasks with a cancellation requested and not yet thrown
    pending,        \* the exception in flight while the exit stack unwinds
    notifying,      \* sessions whose hr_data_dump the connection may call
    sinkOpen,       \* sessions inside `with open(csv_file_name, 'a')`
    files,          \* the records appended to each output file
    delivered,      \* history: the calls of each hr_data_dump
    stopSeen,       \* history: sessions that caught CancelledError in the loop
    teardownErr,    \* history: sessions whose stop_notify or disconnect raised
    link,           \* each client: none (not entered), up, lost (dropped
                    \* under the task) or down (the exit stack has left it)
    now,            \* time.time(), in ticks
    interrupted,    \* the KeyboardInterrupt has arrived
    recordDone,     \* record() is over: it returned, or gather() raised in it
    closing,        \* asyncio.run has cancelled the tasks record() left behind
    exitCode,       \* what main returned (NoExit until it returns)
    payload,        \* decoder on its own: the input
    decoded         \* decoder on its own: what hr_data_conv gave

vars ==
    << subjects, pc, locked, waiters, woken, inGate, cancelReq, pending,
       notifying, sinkOpen, files, delivered, stopSeen, teardownErr, link, now,
       interrupted, recordDone, closing, exitCode, payload, decoded >>

recorderVars ==
    << subjects, pc, locked, waiters, woken, inGate, cancelReq, pending,
       notifying, sinkOpen, files, delivered, stopSeen, teardownErr, link, now,
       interrupted, recordDone, closing, exitCode >>

(* ========================================================== hr_data_conv *)

RECURSIVE BitOr(_, _)
BitOr(a, b) ==
    IF a = 0 THEN b
    ELSE IF b = 0 THEN a
    ELSE (IF a % 2 = 1 \/ b % 2 = 1 THEN 1 ELSE 0) + 2 * BitOr(a \div 2, b \div 2)

RECURSIVE BitAnd(_, _)
BitAnd(a, b) ==
    IF a = 0 \/ b = 0 THEN 0
    ELSE (IF a % 2 = 1 /\ b % 2 = 1 THEN 1 ELSE 0) + 2 * BitAnd(a \div 2, b \div 2)

Shl(a, n) == a * 2 ^ n

Shr(a, n) == a \div 2 ^ n

\* data[i] of Python: 0-based, IndexError when i >= len(data)
InRange(data, i) == i < Len(data)

At(data, i) == data[i + 1]

\* (data[i + 1] << 8) | data[i]
LittleEndian16(data, i) == BitOr(Shl(At(data, i + 1), 8), At(data, i))

\* IbiMillis with int() in the place of math.ceil
IbiMillis_floor(ibi) == (ibi * 1000) \div 1024

\* math.ceil(ibi / 1024 * 1000): ibi / 1024 and its product with 1000 are
\* exact in binary floating point for a 16-bit ibi, so this is the exact ceiling
IbiMillis(ibi) == (ibi * 1000 + 1023) \div 1024

IndexError == [exc |-> "IndexError"]

\* IbiStarts that stops before a last byte without a pair:
\* range(first, len(data) - 1, 2)
IbiStarts_whole(data, first) ==
    { i \in first .. (Len(data) - 2) : (i - first) % 2 = 0 }

\* range(first, len(data), 2)
IbiStarts(data, first) ==
    { i \in first .. (Len(data) - 1) : (i - first) % 2 = 0 }

IbiList(data, first) ==
    [ k \in 1 .. Cardinality(IbiStarts(data, first)) |->
        IbiMillis(LittleEndian16(data, first + 2 * (k - 1))) ]

hr_data_conv_be(data) ==
    IF ~InRange(data, 0) THEN IndexError
    ELSE
    LET byte0 == At(data, 0)
        uint8_format == BitAnd(byte0, 1) = 0
        energy_expenditure == BitAnd(Shr(byte0, 3), 1) = 1
        after_hr == IF uint8_format THEN 2 ELSE 3
        first_rr_byte == IF energy_expenditure THEN after_hr + 2 ELSE after_hr
    IN  IF ~InRange(data, after_hr - 1) THEN IndexError
        ELSE IF energy_expenditure /\ ~InRange(data, after_hr + 1) THEN IndexError
        ELSE IF \E i \in IbiStarts(data, first_rr_byte) : ~InRange(data, i + 1)
             THEN IndexError
        ELSE [ exc  |-> "None",
               hr   |-> IF uint8_format THEN At(data, 1)
                        ELSE BitOr(Shl(At(data, 1), 8), At(data, 2)),
               ee   |-> IF energy_expenditure
                        THEN << LittleEndian16(data, after_hr) >> ELSE << >>,
               ibis |-> IbiList(data, first_rr_byte) ]

\* returns (hr, ee, ibis), ee = << >> standing for None, or raises IndexError
hr_data_conv(data) ==
    IF ~InRange(data, 0) THEN IndexError
    ELSE
    LET byte0 == At(data, 0)
        uint8_format == BitAnd(byte0, 1) = 0
        energy_expenditure == BitAnd(Shr(byte0, 3), 1) = 1
        after_hr == IF uint8_format THEN 2 ELSE 3
        first_rr_byte == IF energy_expenditure THEN after_hr + 2 ELSE after_hr
    IN  IF ~InRange(data, after_hr - 1) THEN IndexError
        ELSE IF energy_expenditure /\ ~InRange(data, after_hr + 1) THEN IndexError
        ELSE IF \E i \in IbiStarts(data, first_rr_byte) : ~InRange(data, i + 1)
             THEN IndexError
        ELSE [ exc  |-> "None",
               hr   |-> IF uint8_format THEN At(data, 1)
                        ELSE LittleEndian16(data, 1),
               ee   |-> IF energy_expenditure
                        THEN << LittleEndian16(data, after_hr) >> ELSE << >>,
               ibis |-> IbiList(data, first_rr_byte) ]

(* ============================================================== record *)

Min(a, b) == IF a < b THEN a ELSE b

Range(f) == { f[i] : i \in DOMAIN f }

Remove(seq, x) == SelectSeq(seq, LAMBDA y : y # x)

\* zip(subjects, devices): one session per pair, numbered in launch order
Sessions == 1 .. Min(Len(subjects), Len(devices))

device_name(s) == devices[s]

\* output_folder / f"{subject}_{phase}.csv"
csv_file_name(s) == << subjects[s], phase >>

properties(s) == [ subject |-> subjects[s], phase |-> phase ]

\* t0 = time.time() of record(), the origin of the clock of the model
time0 == 0

Terminated == { "Closed", "Failed", "Cancelled" }

NoExit == -1

\* the futures of lock._waiters that are cancelled: a task waiting in
\* lock.acquire() whose cancel() was called before its future got a result
WaiterCancelled(w) == cancelReq[w] /\ w \notin woken

\* Lock._wake_up_first on the waiters ws: the new set of woken waiters
WakeUpFirst(ws) ==
    IF ws = << >> THEN woken
    ELSE IF Head(ws) \in woken \/ WaiterCancelled(Head(ws)) THEN woken
    ELSE woken \cup { Head(ws) }

\* Lock.release at the end of `async with lock`, by session s
Release(s) ==
    /\ locked' = FALSE
    /\ woken' = WakeUpFirst(waiters)
    /\ inGate' = inGate \ { s }
    /\ UNCHANGED waiters

\* every task gather() made has had its first step
Launched == \A t \in Sessions : pc[t] # "Idle"

\* writer.writeheader()
HeaderRecord == [ kind |-> "header" ]

\* the dict hr_data_dump hands to writer.writerow (the timestamp column is
\* the same clock reading as text)
Row(s, hr) ==
    [ kind |-> "row", time |-> now + 1 - time0, device |-> device_name(s),
      heartrate |-> hr, subject |-> properties(s).subject,
      phase |-> properties(s).phase ]

InitWith(lists) ==
    /\ subjects \in lists
    /\ pc = [ s \in Sessions |-> "Idle" ]
    /\ locked = FALSE
    /\ waiters = << >>
    /\ woken = { }
    /\ inGate = { }
    /\ cancelReq = [ s \in Sessions |-> FALSE ]
    /\ pending = [ s \in Sessions |-> "none" ]
    /\ notifying = { }
    /\ sinkOpen = { }
    /\ files = [ f \in { csv_file_name(s) : s \in Sessions } |-> << >> ]
    /\ delivered = [ s \in Sessions |-> << >> ]
    /\ stopSeen = { }
    /\ teardownErr = { }
    /\ link = [ s \in Sessions |-> "none" ]
    /\ now = 0
    /\ interrupted = FALSE
    /\ recordDone = FALSE
    /\ closing = FALSE
    /\ exitCode = NoExit
    /\ payload = << >>
    /\ decoded = [ exc |-> "NotRun" ]

Init == InitWith(SubjectLists)

\* the first step of a task: up to lock.acquire(), which takes the lock at
\* once or queues the task
Start(s) ==
    /\ pc[s] = "Idle"
    /\ ~cancelReq[s]
    /\ \A t \in Sessions : t < s => pc[t] # "Idle"
    /\ IF ~locked /\ \A w \in Range(waiters) : WaiterCancelled(w)
       THEN /\ locked' = TRUE
            /\ inGate' = inGate \cup { s }
            /\ pc' = [ pc EXCEPT ![s] = "Scanning" ]
            /\ UNCHANGED waiters
       ELSE /\ waiters' = Append(waiters, s)
            /\ pc' = [ pc EXCEPT ![s] = "WaitGate" ]
            /\ UNCHANGED << locked, inGate >>
    /\ UNCHANGED << subjects, woken, cancelReq, pending, notifying, sinkOpen,
                    files, delivered, stopSeen, teardownErr, link, now, interrupted, recordDone, closing,
                    exitCode, payload, decoded >>

\* a queued task resumes in lock.acquire() and enters the body of the lock
GateGranted(s) ==
    /\ pc[s] = "WaitGate"
    /\ s \in woken
    /\ ~cancelReq[s]
    /\ waiters' = Remove(waiters, s)
    /\ woken' = woken \ { s }
    /\ locked' = TRUE
    /\ inGate' = inGate \cup { s }
    /\ pc' = [ pc EXCEPT ![s] = "Scanning" ]
    /\ UNCHANGED << subjects, cancelReq, pending, notifying, sinkOpen, files,
                    delivered, stopSeen, teardownErr, link, now, interrupted, recordDone, closing,
                    exitCode, payload, decoded >>

\* ScanOutcome with the lock released as soon as the device is found
ScanOutcome_NarrowLock(s, r) ==
    /\ Release(s)
    /\ pc' = [ pc EXCEPT ![s] = IF r = "device" THEN "Connecting" ELSE "Failed" ]

\* ScanOutcome with the return of the not-found path keeping the lock
ScanOutcome_NoRelease(s, r) ==
    CASE r = "device" ->
            /\ pc' = [ pc EXCEPT ![s] = "Connecting" ]
            /\ UNCHANGED << locked, woken, inGate, waiters >>
      [] r = "None" ->
            /\ pc' = [ pc EXCEPT ![s] = "Failed" ]
            /\ inGate' = inGate \ { s }
            /\ UNCHANGED << locked, woken, waiters >>
      [] OTHER ->
            /\ Release(s)
            /\ pc' = [ pc EXCEPT ![s] = "Failed" ]

\* what follows find_device_by_name: with a device the task awaits the
\* connect; with None it logs and returns, with an exception it logs in
\* `except Exception`, and both leave `async with lock`
ScanOutcome(s, r) ==
    IF r = "device"
    THEN /\ pc' = [ pc EXCEPT ![s] = "Connecting" ]
         /\ UNCHANGED << locked, woken, inGate, waiters >>
    ELSE /\ Release(s)
         /\ pc' = [ pc EXCEPT ![s] = "Failed" ]

\* BleakScanner.find_device_by_name is over: a device, None, or an exception
ScanDone(s) ==
    /\ pc[s] = "Scanning"
    /\ ~cancelReq[s]
    /\ Launched
    /\ \E r \in { "device", "None", "error" } : ScanOutcome(s, r)
    /\ UNCHANGED << subjects, cancelReq, pending, notifying, sinkOpen, files,
                    delivered, stopSeen, teardownErr, link, now, interrupted,
                    recordDone, closing, exitCode, payload, decoded >>

\* ConnectOutcome with `async with lock` around the whole session
ConnectOutcome_HoldGate(s, r) ==
    /\ UNCHANGED cancelReq
    /\ CASE r = "connected" ->
                /\ files' = [ files EXCEPT ![csv_file_name(s)] =
                                Append(@, HeaderRecord) ]
                /\ sinkOpen' = sinkOpen \cup { s }
                /\ notifying' = notifying \cup { s }
                /\ link' = [ link EXCEPT ![s] = "up" ]
                /\ pc' = [ pc EXCEPT ![s] = "Subscribing" ]
                /\ UNCHANGED << pending, locked, woken, inGate, waiters >>
         [] r = "OSError" ->
                /\ pending' = [ pending EXCEPT ![s] = "error" ]
                /\ link' = [ link EXCEPT ![s] = "up" ]
                /\ pc' = [ pc EXCEPT ![s] = "Disconnecting" ]
                /\ UNCHANGED << files, sinkOpen, notifying, locked, woken,
                                inGate, waiters >>
         [] OTHER ->
                /\ Release(s)
                /\ pc' = [ pc EXCEPT ![s] = "Failed" ]
                /\ UNCHANGED << files, sinkOpen, notifying, pending, link >>

\* ConnectOutcome with the exception of the connect leaving the task: gather
\* hands it to record(), and asyncio.run cancels the tasks left
ConnectOutcome_Abort(s, r) ==
    /\ Release(s)
    /\ CASE r = "connected" ->
                /\ files' = [ files EXCEPT ![csv_file_name(s)] =
                                Append(@, HeaderRecord) ]
                /\ sinkOpen' = sinkOpen \cup { s }
                /\ notifying' = notifying \cup { s }
                /\ link' = [ link EXCEPT ![s] = "up" ]
                /\ pc' = [ pc EXCEPT ![s] = "Subscribing" ]
                /\ UNCHANGED << pending, cancelReq >>
         [] r = "OSError" ->
                /\ pending' = [ pending EXCEPT ![s] = "error" ]
                /\ link' = [ link EXCEPT ![s] = "up" ]
                /\ pc' = [ pc EXCEPT ![s] = "Disconnecting" ]
                /\ UNCHANGED << files, sinkOpen, notifying, cancelReq >>
         [] OTHER ->
                /\ pc' = [ pc EXCEPT ![s] = "Failed" ]
                /\ cancelReq' = [ t \in Sessions |->
                                    t # s /\ pc[t] \notin Terminated ]
                /\ UNCHANGED << files, sinkOpen, notifying, pending, link >>

\* what follows the connect. Connected: the lock is released, the file is
\* opened and gets its header, and start_notify is awaited with hr_data_dump
\* as callback; a failed open unwinds the exit stack (disconnect). A failed
\* connect leaves `async with lock` and is logged in `except Exception`, and
\* the client, never entered, is not on the exit stack.
ConnectOutcome(s, r) ==
    /\ Release(s)
    /\ UNCHANGED cancelReq
    /\ CASE r = "connected" ->
                /\ files' = [ files EXCEPT ![csv_file_name(s)] =
                                Append(@, HeaderRecord) ]
                /\ sinkOpen' = sinkOpen \cup { s }
                /\ notifying' = notifying \cup { s }
                /\ link' = [ link EXCEPT ![s] = "up" ]
                /\ pc' = [ pc EXCEPT ![s] = "Subscribing" ]
                /\ UNCHANGED pending
         [] r = "OSError" ->
                /\ pending' = [ pending EXCEPT ![s] = "error" ]
                /\ link' = [ link EXCEPT ![s] = "up" ]
                /\ pc' = [ pc EXCEPT ![s] = "Disconnecting" ]
                /\ UNCHANGED << files, sinkOpen, notifying >>
         [] OTHER ->
                /\ pc' = [ pc EXCEPT ![s] = "Failed" ]
                /\ UNCHANGED << files, sinkOpen, notifying, pending, link >>

\* stack.enter_async_context(client) is over: connected (and the file opened,
\* or not: OSError) or an exception of the connect
ConnectDone(s) ==
    /\ pc[s] = "Connecting"
    /\ ~cancelReq[s]
    /\ Launched
    /\ \E r \in { "connected", "error", "OSError" } : ConnectOutcome(s, r)
    /\ UNCHANGED << subjects, delivered, stopSeen, teardownErr, now,
                    interrupted, recordDone, closing, exitCode, payload, decoded >>

\* SubscribeDone with the client not on the exit stack: the exception of
\* start_notify ends the task without a disconnect
SubscribeDone_NoStack(s) ==
    /\ pc[s] = "Subscribing"
    /\ ~cancelReq[s]
    /\ \E r \in { "ok", "error" } :
        IF r = "ok"
        THEN /\ pc' = [ pc EXCEPT ![s] = "Streaming" ]
             /\ UNCHANGED << sinkOpen, notifying, pending >>
        ELSE /\ sinkOpen' = sinkOpen \ { s }
             /\ notifying' = notifying \ { s }
             /\ pc' = [ pc EXCEPT ![s] = "Failed" ]
             /\ UNCHANGED pending
    /\ UNCHANGED << subjects, locked, waiters, woken, inGate, cancelReq,
                    files, delivered, stopSeen, teardownErr, link, now,
                    interrupted, recordDone, closing, exitCode, payload, decoded >>

\* client.start_notify is over: the wait loop is entered, or the exception
\* closes the file and unwinds the stack
SubscribeDone(s) ==
    /\ pc[s] = "Subscribing"
    /\ ~cancelReq[s]
    /\ \E r \in { "ok", "error" } :
        IF r = "ok"
        THEN /\ pc' = [ pc EXCEPT ![s] = "Streaming" ]
             /\ UNCHANGED << sinkOpen, notifying, pending >>
        ELSE /\ sinkOpen' = sinkOpen \ { s }
             /\ notifying' = notifying \ { s }
             /\ pending' = [ pending EXCEPT ![s] = "error" ]
             /\ pc' = [ pc EXCEPT ![s] = "Disconnecting" ]
    /\ UNCHANGED << subjects, locked, waiters, woken, inGate, cancelReq,
                    files, delivered, stopSeen, teardownErr, link, now, interrupted, recordDone, closing,
                    exitCode, payload, decoded >>

\* the CancelledError of a task cancelled before or inside `async with lock`
CancelAtGate(s) ==
    /\ cancelReq[s]
    /\ pc[s] \in { "Idle", "WaitGate", "Scanning", "Connecting" }
    /\ cancelReq' = [ cancelReq EXCEPT ![s] = FALSE ]
    /\ pc' = [ pc EXCEPT ![s] = "Cancelled" ]
    /\ CASE pc[s] = "Idle" ->
                \* cancelled before its first step: the body never runs
                UNCHANGED << locked, waiters, woken, inGate >>
         [] pc[s] = "WaitGate" ->
                \* Lock.acquire: the waiter leaves the queue and, when the
                \* lock is free, passes the wake-up on
                /\ waiters' = Remove(waiters, s)
                /\ woken' = IF locked THEN woken \ { s }
                            ELSE WakeUpFirst(Remove(waiters, s)) \ { s }
                /\ UNCHANGED << locked, inGate >>
         [] OTHER ->
                \* leaves `async with lock`; nothing is on the exit stack
                Release(s)
    /\ UNCHANGED << subjects, pending, notifying, sinkOpen, files, delivered,
                    stopSeen, teardownErr, link, now, interrupted, recordDone, closing,
                    exitCode, payload, decoded >>

\* the CancelledError in `await asyncio.sleep(10)`: except CancelledError:
\* pass, and the task goes on to await client.stop_notify
CancelInLoop(s) ==
    /\ cancelReq[s]
    /\ pc[s] = "Streaming"
    /\ cancelReq' = [ cancelReq EXCEPT ![s] = FALSE ]
    /\ stopSeen' = stopSeen \cup { s }
    /\ pc' = [ pc EXCEPT ![s] = "Unsubscribing" ]
    /\ UNCHANGED << subjects, locked, waiters, woken, inGate, pending,
                    notifying, sinkOpen, files, delivered, teardownErr, link, now,
                    interrupted, recordDone, closing, exitCode, payload, decoded >>

\* the CancelledError in a call on the connection: in start_notify or
\* stop_notify it closes the file and the exit stack disconnects; in the
\* disconnect of the exit stack it ends the task
CancelAtCall(s) ==
    /\ cancelReq[s]
    /\ pc[s] \in { "Subscribing", "Unsubscribing", "Disconnecting" }
    /\ cancelReq' = [ cancelReq EXCEPT ![s] = FALSE ]
    /\ IF pc[s] = "Disconnecting"
       THEN /\ pending' = [ pending EXCEPT ![s] = "none" ]
            /\ pc' = [ pc EXCEPT ![s] = "Cancelled" ]
            /\ link' = [ link EXCEPT ![s] = "down" ]
            /\ UNCHANGED sinkOpen
       ELSE /\ sinkOpen' = sinkOpen \ { s }
            /\ pending' = [ pending EXCEPT ![s] = "cancel" ]
            /\ pc' = [ pc EXCEPT ![s] = "Disconnecting" ]
            /\ UNCHANGED link
    /\ UNCHANGED << subjects, locked, waiters, woken, inGate, notifying,
                    files, delivered, stopSeen, teardownErr, now, interrupted,
                    recordDone, closing, exitCode, payload, decoded >>

\* UnsubscribeDone with stop_notify awaited outside the exit stack: its
\* exception ends the task with the client still connected
UnsubscribeDone_NoStack(s) ==
    /\ pc[s] = "Unsubscribing"
    /\ ~cancelReq[s]
    /\ \E r \in { "ok", "error" } :
        /\ notifying' = IF r = "ok" THEN notifying \ { s } ELSE notifying
        /\ pending' = [ pending EXCEPT ![s] = "none" ]
        /\ teardownErr' = IF r = "ok" THEN teardownErr ELSE teardownErr \cup { s }
        /\ pc' = [ pc EXCEPT ![s] = IF r = "ok" THEN "Disconnecting" ELSE "Failed" ]
    /\ sinkOpen' = sinkOpen \ { s }
    /\ UNCHANGED << subjects, locked, waiters, woken, inGate, cancelReq,
                    files, delivered, stopSeen, link, now, interrupted,
                    recordDone, closing, exitCode, payload, decoded >>

\* client.stop_notify is over: the file is closed and the exit stack
\* disconnects, with the exception of stop_notify in flight if it raised
UnsubscribeDone(s) ==
    /\ pc[s] = "Unsubscribing"
    /\ ~cancelReq[s]
    /\ \E r \in { "ok", "error" } :
        /\ notifying' = IF r = "ok" THEN notifying \ { s } ELSE notifying
        /\ pending' = [ pending EXCEPT ![s] = IF r = "ok" THEN "none" ELSE "error" ]
        /\ teardownErr' = IF r = "ok" THEN teardownErr ELSE teardownErr \cup { s }
    /\ sinkOpen' = sinkOpen \ { s }
    /\ pc' = [ pc EXCEPT ![s] = "Disconnecting" ]
    /\ UNCHANGED << subjects, locked, waiters, woken, inGate, cancelReq,
                    files, delivered, stopSeen, link, now, interrupted,
                    recordDone, closing, exitCode, payload, decoded >>

\* the disconnect of client.__aexit__ is over: the task ends by the return
\* after "disconnected", by `except Exception`, or by the CancelledError
DisconnectDone(s) ==
    /\ pc[s] = "Disconnecting"
    /\ ~cancelReq[s]
    /\ \E r \in { "ok", "error" } :
        /\ pc' = [ pc EXCEPT ![s] =
                     IF r = "error" \/ pending[s] = "error" THEN "Failed"
                     ELSE IF pending[s] = "cancel" THEN "Cancelled"
                     ELSE "Closed" ]
        /\ teardownErr' = IF r = "ok" THEN teardownErr ELSE teardownErr \cup { s }
    /\ link' = [ link EXCEPT ![s] = "down" ]
    /\ pending' = [ pending EXCEPT ![s] = "none" ]
    /\ notifying' = notifying \ { s }
    /\ UNCHANGED << subjects, locked, waiters, woken, inGate, cancelReq,
                    sinkOpen, files, delivered, stopSeen, now, interrupted,
                    recordDone, closing, exitCode, payload, decoded >>

\* the connection of a connected client is lost (out of range, battery):
\* its notifications end, and record_from_device, which gives BleakClient
\* no disconnected_callback and awaits only asyncio.sleep in its loop, takes
\* no step
ConnectionLost(s) ==
    /\ link[s] = "up"
    /\ pc[s] \in { "Subscribing", "Streaming", "Unsubscribing", "Disconnecting" }
    /\ link' = [ link EXCEPT ![s] = "lost" ]
    /\ notifying' = notifying \ { s }
    /\ UNCHANGED << subjects, pc, locked, waiters, woken, inGate, cancelReq,
                    pending, sinkOpen, files, delivered, stopSeen, teardownErr,
                    now, interrupted, recordDone, closing, exitCode, payload,
                    decoded >>

\* what a call of hr_data_dump ends by: "None" when the row is written, the
\* IndexError of hr_data_conv, the ValueError of a write to a closed file, or
\* the OSError of a write that fails (w)
CallbackOutcome(s, data, w) ==
    IF hr_data_conv(data).exc # "None" THEN hr_data_conv(data).exc
    ELSE IF s \notin sinkOpen THEN "ValueError"
    ELSE IF w = "OSError" THEN "OSError"
    ELSE "None"

\* hr_data_dump with the exception of a frame that does not decode ending
\* the subscription
hr_data_dump_Unsubscribe(s, data, w) ==
    /\ s \in notifying
    /\ now < MaxNotifs
    /\ w = "OSError" => CallbackOutcome(s, data, w) = "OSError"
    /\ now' = now + 1
    /\ delivered' = [ delivered EXCEPT ![s] =
                        Append(@, [ data |-> data, open |-> s \in sinkOpen,
                                    time |-> now + 1,
                                    exc |-> CallbackOutcome(s, data, w) ]) ]
    /\ notifying' = IF CallbackOutcome(s, data, w) = "IndexError"
                    THEN notifying \ { s } ELSE notifying
    /\ LET frame == hr_data_conv(data)
       IN  IF CallbackOutcome(s, data, w) = "None"
           THEN files' = [ files EXCEPT ![csv_file_name(s)] =
                             Append(@, Row(s, frame.hr)) ]
           ELSE UNCHANGED files
    /\ UNCHANGED << subjects, pc, locked, waiters, woken, inGate, cancelReq,
                    pending, sinkOpen, stopSeen, teardownErr, link,
                    interrupted, recordDone, closing, exitCode, payload, decoded >>

\* hr_data_dump with the row put in front of the rows of the file
hr_data_dump_Prepend(s, data, w) ==
    /\ s \in notifying
    /\ now < MaxNotifs
    /\ w = "OSError" => CallbackOutcome(s, data, w) = "OSError"
    /\ now' = now + 1
    /\ delivered' = [ delivered EXCEPT ![s] =
                        Append(@, [ data |-> data, open |-> s \in sinkOpen,
                                    time |-> now + 1,
                                    exc |-> CallbackOutcome(s, data, w) ]) ]
    /\ LET frame == hr_data_conv(data)
       IN  IF CallbackOutcome(s, data, w) = "None"
           THEN files' = [ files EXCEPT ![csv_file_name(s)] =
                             << Row(s, frame.hr) >> \o @ ]
           ELSE UNCHANGED files
    /\ UNCHANGED << subjects, pc, locked, waiters, woken, inGate, cancelReq,
                    pending, notifying, sinkOpen, stopSeen, teardownErr, link,
                    interrupted, recordDone, closing, exitCode, payload, decoded >>

\* the connection calls hr_data_dump(sender, data): decode, then one writerow;
\* an exception of the callback (a frame that does not decode, a closed
\* file, a write that fails) goes to the caller of the callback, the
\* connection's event handler, and not to the task of the session
hr_data_dump(s, data, w) ==
    /\ s \in notifying
    /\ now < MaxNotifs
    /\ w = "OSError" => CallbackOutcome(s, data, w) = "OSError"
    /\ now' = now + 1
    /\ delivered' = [ delivered EXCEPT ![s] =
                        Append(@, [ data |-> data, open |-> s \in sinkOpen,
                                    time |-> now + 1,
                                    exc |-> CallbackOutcome(s, data, w) ]) ]
    /\ LET frame == hr_data_conv(data)
       IN  IF CallbackOutcome(s, data, w) = "None"
           THEN files' = [ files EXCEPT ![csv_file_name(s)] =
                             Append(@, Row(s, frame.hr)) ]
           ELSE UNCHANGED files
    /\ UNCHANGED << subjects, pc, locked, waiters, woken, inGate, cancelReq,
                    pending, notifying, sinkOpen, stopSeen, teardownErr, link, interrupted,
                    recordDone, closing, exitCode, payload, decoded >>

\* the operator's interrupt: asyncio.run cancels the task of record(), and
\* the gather() it awaits cancels every task that is not done
Interrupt ==
    /\ ~interrupted
    /\ ~recordDone
    /\ interrupted' = TRUE
    /\ cancelReq' = [ s \in Sessions |-> pc[s] \notin Terminated ]
    /\ UNCHANGED << subjects, pc, locked, waiters, woken, inGate, pending,
                    notifying, sinkOpen, files, delivered, stopSeen, teardownErr, link, now,
                    recordDone, closing, exitCode, payload, decoded >>

\* await asyncio.gather(...) is over. Without return_exceptions gather ends
\* when every task is done, or as soon as one task ends by an exception: here
\* the CancelledError of a cancelled task, `except Exception` keeping every
\* other exception inside the task
record ==
    /\ ~recordDone
    /\ \/ \A s \in Sessions : pc[s] \in Terminated
       \/ \E s \in Sessions : pc[s] = "Cancelled"
    /\ recordDone' = TRUE
    /\ UNCHANGED << subjects, pc, locked, waiters, woken, inGate, cancelReq,
                    pending, notifying, sinkOpen, files, delivered, stopSeen,
                    teardownErr, link, now, interrupted, closing, exitCode, payload,
                    decoded >>

\* asyncio.run, once the task of record() is done, cancels every task that
\* is left and runs the loop until they are done
cancel_all_tasks ==
    /\ recordDone
    /\ ~closing
    /\ closing' = TRUE
    /\ cancelReq' = [ s \in Sessions |-> cancelReq[s] \/ pc[s] \notin Terminated ]
    /\ UNCHANGED << subjects, pc, locked, waiters, woken, inGate, pending,
                    notifying, sinkOpen, files, delivered, stopSeen,
                    teardownErr, link, now, interrupted, recordDone, exitCode,
                    payload, decoded >>

\* asyncio.run(task) is over, by return or by KeyboardInterrupt: return 0
main ==
    /\ closing
    /\ \A s \in Sessions : pc[s] \in Terminated
    /\ exitCode = NoExit
    /\ exitCode' = 0
    /\ UNCHANGED << subjects, pc, locked, waiters, woken, inGate, cancelReq,
                    pending, notifying, sinkOpen, files, delivered, stopSeen,
                    teardownErr, link, now, interrupted, recordDone, closing,
                    payload, decoded >>

\* the steps of the task of session s
SessionStep(s) ==
    \/ Start(s)
    \/ GateGranted(s)
    \/ ScanDone(s)
    \/ ConnectDone(s)
    \/ SubscribeDone(s)
    \/ CancelAtGate(s)
    \/ CancelInLoop(s)
    \/ CancelAtCall(s)
    \/ UnsubscribeDone(s)
    \/ DisconnectDone(s)

Next ==
    \/ \E s \in Sessions : SessionStep(s)
    \/ \E s \in Sessions, data \in Payloads, w \in { "ok", "OSError" } :
            hr_data_dump(s, data, w)
    \/ \E s \in Sessions : ConnectionLost(s)
    \/ Interrupt
    \/ record
    \/ cancel_all_tasks
    \/ main

Spec == Init /\ [][Next]_vars

(* ------------------------------------------- the tasks without the data *)

\* hr_data_dump changes the files, the clock and the history only, so the
\* course of the tasks is that of the runs without notifications
GateInit == InitWith(GateSubjectLists)

GateNext ==
    \/ \E s \in Sessions : SessionStep(s)
    \/ \E s \in Sessions : ConnectionLost(s)
    \/ Interrupt
    \/ record
    \/ cancel_all_tasks
    \/ main

\* every call a task awaits returns or raises, and the event loop runs every
\* task that can run; the interrupt may never come
GateSpec ==
    /\ GateInit
    /\ [][GateNext]_vars
    /\ \A s \in 1 .. Len(devices) : WF_vars(s \in Sessions /\ SessionStep(s))
    /\ WF_vars(record)
    /\ WF_vars(cancel_all_tasks)
    /\ WF_vars(main)

(* ------------------------------------------------ the decoder on its own *)

\* the byte strings of at most MaxLen bytes: a flags byte, then data bytes
DecoderInputs ==
    { << >> } \cup
    UNION { { << f >> \o d : f \in FlagVals, d \in [ 1 .. n -> ByteVals ] } :
            n \in 0 .. (MaxLen - 1) }

DecInit ==
    /\ payload \in DecoderInputs
    /\ decoded = [ exc |-> "NotRun" ]
    /\ subjects = << >>
    /\ pc = << >>
    /\ locked = FALSE
    /\ waiters = << >>
    /\ woken = { }
    /\ inGate = { }
    /\ cancelReq = << >>
    /\ pending = << >>
    /\ notifying = { }
    /\ sinkOpen = { }
    /\ files = << >>
    /\ delivered = << >>
    /\ stopSeen = { }
    /\ teardownErr = { }
    /\ link = << >>
    /\ now = 0
    /\ interrupted = FALSE
    /\ recordDone = FALSE
    /\ closing = FALSE
    /\ exitCode = NoExit

Decode ==
    /\ decoded.exc = "NotRun"
    /\ decoded' = hr_data_conv(payload)
    /\ UNCHANGED << payload, recorderVars >>

DecNext == Decode

DecSpec == DecInit /\ [][DecNext]_vars

(* ================================================================ claims *)

\* the sessions that may be the subject of a temporal formula
SessionIds == 1 .. Len(devices)

SessionAt(s, where) == s \in Sessions /\ pc[s] \in where

\* session s has been through `async with lock` and has left it
PastGate(s) ==
    /\ SessionAt(s, { "Subscribing", "Streaming", "Unsubscribing", "Disconnecting",
               "Closed", "Failed" })
    /\ s \notin inGate

\* the rows of session s in the files fs
RowsOf(fs, s) ==
    SelectSeq(fs[csv_file_name(s)],
              LAMBDA rec : rec.kind = "row" /\ rec.device = device_name(s))

\* C1: at most one session is between acquiring and releasing the lock, that
\* is in discovery-by-name or in its initial connect, in every reachable state
ScanGateMutex ==
    /\ Cardinality({ s \in Sessions : pc[s] \in { "Scanning", "Connecting" } }) <= 1
    /\ Cardinality(inGate) <= 1

\* one session connects inside the gate while the two others wait for it
ScanGateMutexWitness ==
    /\ Cardinality(Sessions) = 3
    /\ \E s \in Sessions :
        /\ pc[s] = "Connecting"
        /\ \A t \in Sessions \ { s } : pc[t] = "WaitGate"

\* C2: when every discovery and every connect ends (device, not found, or
\* error) and no interrupt comes, every session gets the gate and gives it
\* back; with or without interrupt no session waits for the gate for ever
ScanGateLiveness ==
    \A s \in SessionIds :
        /\ <>(s \notin Sessions \/ interrupted \/ PastGate(s))
        /\ SessionAt(s, { "WaitGate" }) ~> ~SessionAt(s, { "WaitGate" })

\* the gate was passed on after a not-found or failed session, twice
ScanGateLivenessWitness ==
    /\ ~interrupted
    /\ Cardinality(Sessions) = 3
    /\ pc[1] = "Failed" /\ pc[2] = "Failed" /\ pc[3] = "Streaming"
    /\ \A s \in Sessions : PastGate(s)
    /\ files[csv_file_name(1)] = << >> /\ files[csv_file_name(2)] = << >>

\* C3: no session holds the gate while it opens its sink, subscribes,
\* streams or tears down: the holder is scanning or connecting
GateOnlyDiscovery ==
    /\ \A s \in inGate : pc[s] \in { "Scanning", "Connecting" }
    /\ locked => inGate # { }

\* two sessions stream while a third holds the gate for its discovery
GateOnlyDiscoveryWitness ==
    \E s \in Sessions :
        /\ pc[s] = "Scanning" /\ s \in inGate /\ locked
        /\ Cardinality({ t \in Sessions : pc[t] = "Streaming" }) = 2

\* C4: a session that ends by device-not-found or by a failed connect changes
\* no other session, cancels none and does not end record(); only the
\* interrupt cancels tasks
SiblingIsolation ==
    /\ [](\A s \in Sessions : cancelReq[s] => interrupted)
    /\ [][ \A s \in Sessions :
             (pc[s] \in { "Scanning", "Connecting" } /\ pc'[s] = "Failed")
             => /\ \A t \in Sessions \ { s } :
                     pc'[t] = pc[t] /\ cancelReq'[t] = cancelReq[t]
                /\ recordDone' = recordDone
                /\ interrupted' = interrupted
                /\ exitCode' = exitCode ]_vars

\* the first session failed before opening its sink, and the two others
\* streamed and reached Closed
SiblingIsolationWitness ==
    /\ Cardinality(Sessions) = 3
    /\ pc[1] = "Failed" /\ files[csv_file_name(1)] = << >>
    /\ pc[2] = "Closed" /\ pc[3] = "Closed"
    /\ { 2, 3 } \subseteq stopSeen

\* C5: a session that was in the wait loop when the stop signal was raised
\* leaves the loop, unsubscribes, disconnects and reaches Closed (Failed when
\* its stop_notify or disconnect raised); none is ended by cancellation. As
\* a property of finite runs: such a session is never Cancelled, and it is
\* Closed when main has returned
GracefulShutdown ==
    \A s \in stopSeen :
        /\ pc[s] # "Cancelled"
        /\ exitCode # NoExit =>
             (pc[s] = "Closed" \/ (pc[s] = "Failed" /\ s \in teardownErr))

\* C6: once a session has caught the cancellation in its wait loop, no row
\* of that session is appended any more
NoSampleAfterStop ==
    [][ \A s \in Sessions :
          s \in stopSeen => RowsOf(files', s) = RowsOf(files, s) ]_vars

\* C7: when record() is over, by return or by the interrupt, every session
\* it launched is terminal
ReturnAfterAllTerminal ==
    recordDone => \A s \in Sessions : pc[s] \in Terminated

\* C8: the exit code of a run tells whether a session failed: it is 0, the
\* code of the runs without failure, only when no session reached Failed
ExitCodeReflectsFailure ==
    exitCode # NoExit => (exitCode = 0 <=> \A s \in Sessions : pc[s] # "Failed")

\* the rows session s must have written: one per call of hr_data_dump with a
\* payload that decodes, made while its file was open and written without
\* error, in the order of the calls
DecodedRows(s) ==
    LET calls == SelectSeq(delivered[s],
                    LAMBDA c : /\ c.open
                               /\ hr_data_conv(c.data).exc = "None"
                               /\ c.exc # "OSError")
    IN  [ i \in 1 .. Len(calls) |->
            [ kind |-> "row", time |-> calls[i].time - time0,
              device |-> devices[s], heartrate |-> hr_data_conv(calls[i].data).hr,
              subject |-> subjects[s], phase |-> phase ] ]

\* C9: the rows of a session are the decoded well-formed notifications it was
\* delivered, one row each, in delivery order, with its own device, subject
\* and phase, and every row of a file is a row of a session that owns the file
OrderedRecording ==
    /\ \A s \in Sessions : RowsOf(files, s) = DecodedRows(s)
    /\ \A s \in Sessions :
          SessionAt(s, { "Streaming" }) =>
            s \in sinkOpen /\ (link[s] = "up" => s \in notifying)
    /\ \A f \in DOMAIN files : \A i \in 1 .. Len(files[f]) :
          files[f][i].kind = "row" =>
            \E s \in Sessions :
                /\ csv_file_name(s) = f
                /\ files[f][i].device = device_name(s)
                /\ files[f][i].subject = subjects[s]
                /\ files[f][i].phase = phase

\* [0x00,0x46] then [0x00,0x47] while streaming: heart rates 70 then 71
OrderedRecordingWitness ==
    \E s \in Sessions :
        /\ pc[s] = "Streaming"
        /\ Len(delivered[s]) = 2
        /\ delivered[s][1].data = << 0, 70 >> /\ delivered[s][2].data = << 0, 71 >>
        /\ Len(RowsOf(files, s)) = 2
        /\ RowsOf(files, s)[1].heartrate = 70 /\ RowsOf(files, s)[2].heartrate = 71
        /\ RowsOf(files, s)[1].time <= RowsOf(files, s)[2].time

\* a payload that has every byte its flags byte announces, and whole intervals
ValidPayload(p) ==
    /\ Len(p) >= 1
    /\ LET fixed == 2 + (p[1] % 2) + 2 * ((p[1] \div 8) % 2)
       IN  Len(p) >= fixed /\ (Len(p) - fixed) % 2 = 0

\* C10: a valid payload of the flags byte (bit 0 clear) and one heart-rate
\* byte decodes to that byte, no energy expenditure and no interval; a valid
\* payload with bit 0 set decodes to heart rate byte1 + 256 * byte2 <= 65535
HeartRateDecoding ==
    decoded.exc # "NotRun" =>
        /\ (ValidPayload(payload) /\ Len(payload) = 2 /\ payload[1] % 2 = 0)
            => decoded = [ exc |-> "None", hr |-> payload[2], ee |-> << >>,
                           ibis |-> << >> ]
        /\ (ValidPayload(payload) /\ payload[1] % 2 = 1)
            => /\ decoded.exc = "None"
               /\ decoded.hr = payload[2] + 256 * payload[3]
               /\ decoded.hr \in 0 .. 65535

\* a 16-bit heart rate above 255 was decoded
HeartRateDecodingWitness ==
    /\ decoded.exc = "None"
    /\ payload = << 1, 70, 1 >>
    /\ decoded.hr = 326

(* ---------------------------------------------------- C11: the round trip *)

LoByte(v) == v % 256

HiByte(v) == v \div 256

\* the values put in the frames that are encoded
HrVals == { 0, 70, 255, 326, 65535 }

EeVals == { 1, 513, 65535 }

RawVals == { 0, 1, 512, 1024, 65535 }

\* the frames with this flags byte whose encoding has len bytes: a heart rate
\* that fits the format of bit 0, an energy expenditure (<< ee >>) exactly
\* when bit 3 is set, and the raw intervals
FramesOf(flags, len) ==
    LET wide == flags % 2 = 1
        energy == (flags \div 8) % 2 = 1
        fixed == 2 + (IF wide THEN 1 ELSE 0) + (IF energy THEN 2 ELSE 0)
    IN  IF len < fixed \/ (len - fixed) % 2 = 1 THEN { }
        ELSE [ flags : { flags },
               hr    : IF wide THEN HrVals ELSE { h \in HrVals : h < 256 },
               ee    : IF energy THEN { << e >> : e \in EeVals } ELSE { << >> },
               raws  : [ 1 .. ((len - fixed) \div 2) -> RawVals ] ]

RECURSIVE EncodeRaws(_)
EncodeRaws(raws) ==
    IF raws = << >> THEN << >>
    ELSE << LoByte(Head(raws)), HiByte(Head(raws)) >> \o EncodeRaws(Tail(raws))

\* the payload of a frame: flags, heart rate in 1 or 2 bytes, energy
\* expenditure in 2 bytes when there is one, 2 bytes per raw interval, every
\* 16-bit field little-endian
Encode(f) ==
    << f.flags >>
    \o (IF f.flags % 2 = 0 THEN << f.hr >> ELSE << LoByte(f.hr), HiByte(f.hr) >>)
    \o (IF f.ee = << >> THEN << >> ELSE << LoByte(f.ee[1]), HiByte(f.ee[1]) >>)
    \o EncodeRaws(f.raws)

\* m = ceil(raw * 1000 / 1024)
IsCeilMillis(m, raw) == m * 1024 >= raw * 1000 /\ (m - 1) * 1024 < raw * 1000

MalformedFramesRejected ==
    (decoded.exc # "NotRun" /\ ~ValidPayload(payload)) =>
        /\ decoded = IndexError
        /\ DOMAIN decoded = { "exc" }

\* 8-bit heart rate 70 followed by one odd byte: an error, not (70, None, [])
MalformedFramesRejectedWitness ==
    /\ payload = << 0, 70, 4 >>
    /\ decoded = IndexError

(* ------------------------------------- C13: a frame that does not decode *)

\* the call of hr_data_dump made in this step for session s, if there is one
CallMade(s) == Len(delivered'[s]) = Len(delivered[s]) + 1

LastCall(s) == delivered'[s][Len(delivered'[s])]

Decodes(data) == hr_data_conv(data).exc = "None"

\* C13: a notification that does not decode ends in the callback with the
\* decode error and changes nothing else: no row, the session stays where it
\* is (Streaming stays Streaming), subscribed and with its file open; and a
\* later well-formed notification of a Streaming session that had such a
\* frame before is appended as a row (unless the write itself fails)
MalformedFrameDropped ==
    [][ \A s \in Sessions :
          CallMade(s) =>
            /\ ~Decodes(LastCall(s).data) =>
                 /\ LastCall(s).exc = "IndexError"
                 /\ files' = files
                 /\ pc' = pc
                 /\ notifying' = notifying
                 /\ sinkOpen' = sinkOpen
                 /\ cancelReq' = cancelReq
                 /\ pending' = pending
            /\ ( /\ Decodes(LastCall(s).data)
                 /\ pc[s] = "Streaming"
                 /\ LastCall(s).exc # "OSError"
                 /\ \E i \in 1 .. Len(delivered[s]) : ~Decodes(delivered[s][i].data) )
               => /\ pc'[s] = "Streaming"
                  /\ Len(RowsOf(files', s)) = Len(RowsOf(files, s)) + 1
                  /\ RowsOf(files', s)[Len(RowsOf(files', s))].heartrate
                        = hr_data_conv(LastCall(s).data).hr ]_vars

\* [0x00] then [0x00,0x46] while streaming: one row, heart rate 70
MalformedFrameDroppedWitness ==
    \E s \in Sessions :
        /\ pc[s] = "Streaming"
        /\ Len(delivered[s]) = 2
        /\ delivered[s][1].data = << 0 >> /\ delivered[s][1].exc = "IndexError"
        /\ delivered[s][2].data = << 0, 70 >>
        /\ Len(RowsOf(files, s)) = 1
        /\ RowsOf(files, s)[1].heartrate = 70

(* ------------------------------------------------ C14: a connection drop *)

\* C14: a session whose connection is lost while it is Streaming leaves the
\* wait loop and ends as Failed, without its siblings being cancelled
ConnectionDropEndsSession ==
    \A s \in SessionIds :
        (SessionAt(s, { "Streaming" }) /\ link[s] = "lost")
            ~> SessionAt(s, { "Failed" })

(* ------------------------------------------------------ C15: sink errors *)

\* the steps of session s leave every other session as it was
SiblingsUntouched(s) ==
    \A t \in Sessions \ { s } :
        /\ pc'[t] = pc[t]
        /\ cancelReq'[t] = cancelReq[t]
        /\ pending'[t] = pending[t]
        /\ (t \in sinkOpen') = (t \in sinkOpen)
        /\ (t \in notifying') = (t \in notifying)

\* C15: a failed open of the output file sends the session, through the
\* disconnect of its connection, to Failed (when no interrupt comes during
\* the disconnect), and a failed append while
\* Streaming takes the session out of the wait loop towards Failed; the
\* siblings stay as they are
SinkErrorFatal ==
    [][ \A s \in Sessions :
          /\ (pc[s] = "Connecting" /\ link'[s] = "up" /\ s \notin sinkOpen')
                => /\ pc'[s] = "Disconnecting"
                   /\ pending'[s] = "error"
                   /\ SiblingsUntouched(s)
          /\ ( /\ pc[s] = "Disconnecting" /\ pending[s] = "error"
               /\ ~cancelReq[s] /\ pc'[s] # pc[s] )
                => pc'[s] = "Failed"
          /\ (CallMade(s) /\ pc[s] = "Streaming" /\ LastCall(s).exc = "OSError")
                => /\ pc'[s] # "Streaming"
                   /\ SiblingsUntouched(s) ]_vars

(* -------------------------------------------------- C16: exclusive sinks *)

\* C16: no two sessions of a run have the same output file open at the same
\* time
ExclusiveSinks ==
    \A s, t \in sinkOpen : s # t => csv_file_name(s) # csv_file_name(t)

(* ------------------------------------------------- C17: teardown order *)

\* C17: a session that caught the cancellation in its wait loop awaits
\* stop_notify and then, whatever stop_notify did, the disconnect, and ends
\* only from the disconnect; a failure of either ends the session as Failed,
\* in a step that leaves the siblings and record() as they were; every such
\* session reaches a terminal state; and without interrupt record() ends
\* only when every session has ended
TeardownBestEffort ==
    /\ [][ \A s \in Sessions :
             /\ (pc[s] = "Streaming" /\ pc'[s] # pc[s])
                    => pc'[s] = "Unsubscribing"
             /\ (pc[s] = "Unsubscribing" /\ pc'[s] # pc[s])
                    => pc'[s] = "Disconnecting"
             /\ (s \in stopSeen /\ pc[s] \notin Terminated /\ pc'[s] \in Terminated)
                    => pc[s] = "Disconnecting"
             /\ (s \in teardownErr' /\ s \notin teardownErr)
                    => /\ SiblingsUntouched(s)
                       /\ recordDone' = recordDone
                       /\ closing' = closing
                       /\ exitCode' = exitCode
                       /\ cancelReq' = cancelReq
             /\ ( /\ s \in teardownErr' /\ pc[s] = "Disconnecting"
                  /\ ~cancelReq[s] /\ pc'[s] # pc[s] )
                    => pc'[s] = "Failed" ]_vars
    /\ [](recordDone /\ ~interrupted => \A s \in Sessions : pc[s] \in Terminated)
    /\ \A s \in SessionIds :
          (s \in Sessions /\ s \in stopSeen) ~> SessionAt(s, Terminated)

\* stop_notify or the disconnect of the first session raised: it ended Failed
\* after the disconnect, and the two others unsubscribed, disconnected and are Closed
TeardownBestEffortWitness ==
    /\ Cardinality(Sessions) = 3
    /\ stopSeen = { 1, 2, 3 }
    /\ teardownErr = { 1 }
    /\ pc[1] = "Failed" /\ link[1] = "down"
    /\ pc[2] = "Closed" /\ pc[3] = "Closed"
    /\ recordDone

(* ------------------------------------- C18: where cancellation is observed *)

\* C18: the stop signal stops a session only in its wait loop: the
\* CancelledError of a cancelled task is not thrown into a session that is
\* waiting for the lock, scanning, connecting or subscribing
CancellationOnlyInLoop ==
    [][ \A s \in Sessions :
          pc[s] \in { "WaitGate", "Scanning", "Connecting", "Subscribing" }
            => ~(cancelReq[s] /\ ~cancelReq'[s] /\ pc'[s] # pc[s]) ]_vars

(* ------------------------------------------------ C19: no leaked connection *)

LinkIs(s, states) == s \in Sessions /\ link[s] \in states

SinkClosed(s) ==
    /\ s \notin sinkOpen
    /\ pc[s] \in { "Disconnecting" } \cup Terminated
    /\ \E i \in 1 .. Len(files[csv_file_name(s)]) :
          files[csv_file_name(s)][i] = HeaderRecord

\* C20: once the file of a session is closed the session is not subscribed
\* any more, and hr_data_dump is never called with its file closed
NoAppendToClosedSink ==
    \A s \in Sessions :
        /\ SinkClosed(s) => s \notin notifying
        /\ \A i \in 1 .. Len(delivered[s]) : delivered[s][i].open

====
